---- MODULE Spec2Model ----
(***************************************************************************)
(* Model of the AI explanation lambda (lambdas/ai_explanation/handler.py): *)
(* the review enrichment orchestrator _process_single_review, the          *)
(* explanation generator generate_ai_summary, the storage statements of    *)
(* _existing_ai_summary and _persist_summary, and the single-review and    *)
(* batch modes of handler.                                                 *)
(*                                                                         *)
(* Each handler invocation is a process.  The steps of an invocation are   *)
(* its storage reads, its generation call and its storage write; the code  *)
(* between two of them only touches the invocation's locals and is part of *)
(* the step that precedes it.                                              *)
(***************************************************************************)
EXTENDS Integers, Sequences, FiniteSets, TLC

\* ---------------------------------------------------------------- bounds
\* Number of handler invocations.
MaxInvocations == 2
\* Number of handler invocations that can be in progress at once.
MaxConcurrent == 2
\* Longest text the generation backend returns, in characters.
MaxTextLen == 2

\* ---------------------------------------------------------------- values
Procs == 1 .. MaxConcurrent

\* review ids, in the order the table stores them
IdOrder == <<"R1", "R2", "R3">>
ReviewIds == {IdOrder[i] : i \in 1 .. Len(IdOrder)}

\* Python None / SQL NULL for a text value.  Texts are sequences of
\* one-character strings, so the marker is no text.
NULL == <<"<NULL>">>
\* Python None for event.get("review_id")
NoneId == "<None>"

WhiteSpace == {" "}
Chars == {" ", "a"}

RECURSIVE TextsOfLen(_)
TextsOfLen(n) ==
    IF n = 0 THEN {<<>>}
    ELSE {Append(t, c) : t \in TextsOfLen(n - 1), c \in Chars}

Texts == UNION {TextsOfLen(n) : n \in 0 .. MaxTextLen}

\* str.strip(): drop leading and trailing whitespace
RECURSIVE LStrip(_)
LStrip(s) ==
    IF s # <<>> /\ Head(s) \in WhiteSpace THEN LStrip(Tail(s)) ELSE s

RECURSIVE RStrip(_)
RStrip(s) ==
    IF s # <<>> /\ s[Len(s)] \in WhiteSpace
    THEN RStrip(SubSeq(s, 1, Len(s) - 1))
    ELSE s

Strip(s) == RStrip(LStrip(s))

\* Python truthiness of a str | None value
TruthyText(s) == s # NULL /\ s # <<>>

\* Python truthiness of event.get("review_id")
TruthyId(i) == i # NoneId /\ i # ""

\* dict | None values (user_context, policy_json)
NoneDict == [tag |-> "None", items |-> {}]
EmptyDict == [tag |-> "dict", items |-> {}]
Dict(items) == [tag |-> "dict", items |-> items]
TruthyDict(d) == d.tag = "dict" /\ d.items # {}

\* the summary stored when generation fails
FALLBACK_SUMMARY ==
    <<"High-risk access detected based on policy and role mismatch. ",
      "Manual review recommended.">>

RiskLevels == {"HIGH", "LOW"}

\* ---------------------------------------------------------------- storage
\* A row of access_reviews joined with its user and role, as the handler
\* sees it.
Row(r, risk, summary) ==
    [review_id |-> r,
     user_id |-> <<"user", r>>,
     role_id |-> <<"role", r>>,
     user_name |-> <<"user_name", r>>,
     role_name |-> <<"role_name", r>>,
     risk_level |-> risk,
     ai_risk_summary |-> summary]

\* SELECT ai_risk_summary FROM access_reviews WHERE review_id = ?
\* row[0] if row else None
ExistingAiSummary(conn, review_id) ==
    IF review_id \in DOMAIN conn THEN conn[review_id].ai_risk_summary ELSE NULL

\* repo.fetch_review_context: (id, user_id, role_id, user_name, role_name,
\* risk_level) or none
FetchReviewContext(conn, review_id) ==
    IF review_id \in DOMAIN conn
    THEN <<TRUE, conn[review_id]>>
    ELSE <<FALSE, NoneDict>>

\* _build_context_from_db reporting HIGH for every row
BuildContextFromDbAlwaysHigh(conn, review_id) ==
    LET got == FetchReviewContext(conn, review_id)
        row == got[2]
    IN  IF ~got[1]
        THEN [found |-> FALSE, user_context |-> NoneDict,
              policy_json |-> NoneDict, risk_level |-> "HIGH"]
        ELSE [found |-> TRUE,
              user_context |-> Dict({<<"user_id", row.user_id>>}),
              policy_json |-> Dict({<<"policy_arn", row.role_id>>}),
              risk_level |-> "HIGH"]

\* _build_context_from_db without its "if not row" test
BuildContextFromDbNoCheck(conn, review_id) ==
    LET got == FetchReviewContext(conn, review_id)
    IN  [found |-> TRUE,
         user_context |-> Dict({<<"user_id", review_id>>}),
         policy_json |-> Dict({<<"policy_arn", review_id>>}),
         risk_level |-> IF got[1] THEN got[2].risk_level ELSE "HIGH"]

\* _build_context_from_db: (found, user_context, policy_json, risk_level)
BuildContextFromDb(conn, review_id) ==
    LET got == FetchReviewContext(conn, review_id)
        row == got[2]
    IN  IF ~got[1]
        THEN [found |-> FALSE, user_context |-> NoneDict,
              policy_json |-> NoneDict, risk_level |-> "HIGH"]
        ELSE [found |-> TRUE,
              user_context |-> Dict({<<"user_id", row.user_id>>,
                                     <<"user_name", row.user_name>>,
                                     <<"department", "Unknown">>,
                                     <<"role", row.role_name>>}),
              policy_json |-> Dict({<<"policy_arn", row.role_id>>,
                                    <<"policy_name", row.role_name>>}),
              risk_level |-> row.risk_level]

\* _persist_summary with its two parameters swapped: the WHERE clause
\* compares review_id with the summary and matches no row
PersistSummarySwapped(conn, review_id, s) ==
    [r \in DOMAIN conn |->
        IF <<r>> = s
        THEN [conn[r] EXCEPT !.ai_risk_summary = <<review_id>>]
        ELSE conn[r]]

\* _persist_summary without its WHERE clause
PersistSummaryNoWhere(conn, review_id, s) ==
    [r \in DOMAIN conn |-> [conn[r] EXCEPT !.ai_risk_summary = s]]

\* UPDATE access_reviews SET ai_risk_summary = ? WHERE review_id = ?
\* A statement takes effect, and is seen by the other invocations, when it
\* is executed.
PersistSummary(conn, review_id, s) ==
    [r \in DOMAIN conn |->
        IF r = review_id
        THEN [conn[r] EXCEPT !.ai_risk_summary = s]
        ELSE conn[r]]

\* repo.list_high_risk_reviews_missing_ai: the ids of the rows with risk
\* HIGH and a NULL summary, in table order
ListHighRiskReviewsMissingAi(conn) ==
    SelectSeq(IdOrder,
              LAMBDA r : /\ r \in DOMAIN conn
                         /\ conn[r].risk_level = "HIGH"
                         /\ conn[r].ai_risk_summary = NULL)

\* ---------------------------------------------------------------- generator
\* what client.models.generate_content does: it raises, or it returns a
\* response without a text, or a response with a text
Responses ==
    {[kind |-> "raise", text |-> NULL], [kind |-> "notext", text |-> NULL]}
        \cup {[kind |-> "text", text |-> t] : t \in Texts}

NoResponse == [kind |-> "none", text |-> NULL]

\* generate_ai_summary returning response.text as it came
GenerateAiSummaryNoStrip(clientConfigured, resp) ==
    IF ~clientConfigured
    THEN [ok |-> FALSE, text |-> NULL, error |-> "RuntimeError"]
    ELSE IF resp.kind = "raise"
    THEN [ok |-> FALSE, text |-> NULL, error |-> "BackendError"]
    ELSE IF resp.kind = "text" /\ TruthyText(resp.text)
    THEN [ok |-> TRUE, text |-> resp.text, error |-> "none"]
    ELSE [ok |-> FALSE, text |-> NULL, error |-> "ValueError"]

\* generate_ai_summary testing hasattr(response, "text") alone: an empty
\* text is returned
GenerateAiSummaryNoEmptyCheck(clientConfigured, resp) ==
    IF ~clientConfigured
    THEN [ok |-> FALSE, text |-> NULL, error |-> "RuntimeError"]
    ELSE IF resp.kind = "raise"
    THEN [ok |-> FALSE, text |-> NULL, error |-> "BackendError"]
    ELSE IF resp.kind = "text"
    THEN [ok |-> TRUE, text |-> Strip(resp.text), error |-> "none"]
    ELSE [ok |-> FALSE, text |-> NULL, error |-> "ValueError"]

\* generate_ai_summary: the text returned, or the exception raised
GenerateAiSummary(clientConfigured, resp) ==
    IF ~clientConfigured
    THEN [ok |-> FALSE, text |-> NULL, error |-> "RuntimeError"]
    ELSE IF resp.kind = "raise"
    THEN [ok |-> FALSE, text |-> NULL, error |-> "BackendError"]
    ELSE IF resp.kind = "text" /\ TruthyText(resp.text)
    THEN [ok |-> TRUE, text |-> Strip(resp.text), error |-> "none"]
    ELSE [ok |-> FALSE, text |-> NULL, error |-> "ValueError"]

\* ---------------------------------------------------------------- events
InlineUser == Dict({<<"department", "Finance">>})
InlinePolicy == Dict({<<"policy_name", "AdministratorAccess">>})

Event(review_id, user_context, policy_json) ==
    [review_id |-> review_id, user_context |-> user_context,
     policy_json |-> policy_json]

NoEvent == Event(NoneId, NoneDict, NoneDict)

\* (user_context, policy_json) of a single-review event: absent, empty or
\* supplied
InlinePairs ==
    {<<NoneDict, NoneDict>>, <<InlineUser, InlinePolicy>>,
     <<InlineUser, NoneDict>>, <<NoneDict, InlinePolicy>>,
     <<EmptyDict, InlinePolicy>>, <<InlineUser, EmptyDict>>}

Events ==
    {Event(r, c[1], c[2]) : r \in ReviewIds, c \in InlinePairs}
        \cup {Event(NoneId, NoneDict, NoneDict),
              Event("", InlineUser, InlinePolicy)}

\* ---------------------------------------------------------------- outcomes
Success(r) == [status |-> "SUCCESS", review_id |-> r]
Skipped(r, why) == [status |-> "SKIPPED", review_id |-> r, reason |-> why]
Failed(r, why) == [status |-> "FAILED", review_id |-> r, reason |-> why]
BatchReport(results) == [status |-> "SUCCESS", processed |-> results]
NoReturn == [status |-> "<none>"]
Raised == [status |-> "<exception>"]

\* ---------------------------------------------------------------- state
VARIABLES
    db,            \* access_reviews: review id -> row
    client,        \* TRUE iff GOOGLE_API_KEY was set at module load
    started,       \* handler invocations so far
    pc,            \* where each invocation is
    event,         \* the event of each invocation
    rows,          \* batch mode: the rows discovered
    idx,           \* batch mode: position in rows
    context,       \* user_context and policy_json given to the generator
    summary,       \* local summary of _process_single_review
    results,       \* batch mode: results list
    ret,           \* what handler returned
    response,      \* the backend's answer to the latest generation call
    genCalls,      \* generation calls made for the current review
    entry,         \* the table when the invocation began
    prev,          \* the invocation that ran before the current one
    dialect,       \* migrate.py: "sqlite" or "postgres"
    tables,        \* migrate.py: table name -> its columns
    versions,      \* migrate.py: the rows of schema_version
    step,          \* migrate.py: where the current run is
    runs,          \* migrate.py: runs started
    first          \* migrate.py: the database after the first run

vars == <<db, client, started, pc, event, rows, idx, context, summary,
          results, ret, response, genCalls, entry, prev,
          dialect, tables, versions, step, runs, first>>

\* the variables of the handler and those of the migration utility
hvars == <<db, client, started, pc, event, rows, idx, context, summary,
           results, ret, response, genCalls, entry, prev>>
mvars == <<dialect, tables, versions, step, runs, first>>

NoContext == [user_context |-> NoneDict, policy_json |-> NoneDict]

NoPrev ==
    [review_id |-> NoneId, eligible |-> FALSE, ret |-> NoReturn,
     stored |-> NULL]

IsBatch(p) == ~TruthyId(event[p].review_id)

\* the review_id argument of the running _process_single_review
Current(p) == IF IsBatch(p) THEN rows[p][idx[p]] ELSE event[p].review_id

\* the arguments handler passes to _process_single_review
ArgUserContext(p) == IF IsBatch(p) THEN NoneDict ELSE event[p].user_context
ArgPolicyJson(p) == IF IsBatch(p) THEN NoneDict ELSE event[p].policy_json

Eligible(conn, r) ==
    /\ r \in DOMAIN conn
    /\ conn[r].risk_level = "HIGH"
    /\ conn[r].ai_risk_summary = NULL

\* the rows the upstream processes can have produced for a review: no
\* summary yet, or one stored by an earlier run.  R2 is a review that was
\* not scored HIGH.
InitRows(r) ==
    IF r = "R2"
    THEN {Row(r, "LOW", NULL)}
    ELSE {Row(r, risk, NULL) : risk \in RiskLevels}
             \cup {Row(r, "HIGH", <<"a">>)}

InitTables ==
    UNION {{t \in [present -> UNION {InitRows(r) : r \in present}] :
               \A r \in present : t[r].review_id = r} :
              present \in SUBSET ReviewIds}

\* ---------------------------------------------------- the migration utility
\* runs of the utility considered
MaxRuns == 3

\* config.SCHEMA_VERSION, and a version recorded by an earlier release
SCHEMA_VERSION == "current"
OldVersion == "old"

Dialects == {"sqlite", "postgres"}

\* a database without tables
NoTables == [t \in {} |-> {}]

\* the columns of access_reviews before ai_risk_summary was introduced, and
\* those of schema_version
LegacyColumns == {"review_id", "risk_level"}
VersionColumns == {"version", "applied_at"}

\* CREATE TABLE IF NOT EXISTS
CreateTableIfNotExists(ts, name, cols) ==
    IF name \in DOMAIN ts
    THEN ts
    ELSE [t \in DOMAIN ts \cup {name} |-> IF t = name THEN cols ELSE ts[t]]

\* schema_base.sql: the two tables, created when absent; the file may or
\* may not list ai_risk_summary among the columns of access_reviews
SchemaBase(ts, withSummary) ==
    LET cols == IF withSummary
                THEN LegacyColumns \cup {"ai_risk_summary"}
                ELSE LegacyColumns
    IN  CreateTableIfNotExists(
            CreateTableIfNotExists(ts, "access_reviews", cols),
            "schema_version", VersionColumns)

\* schema_sqlite.sql and schema_postgres.sql: on Postgres the column is
\* added by ALTER TABLE ... ADD COLUMN IF NOT EXISTS
SchemaDialect(d, ts) ==
    IF d = "postgres" /\ "access_reviews" \in DOMAIN ts
    THEN [ts EXCEPT !["access_reviews"] = @ \cup {"ai_risk_summary"}]
    ELSE ts

\* ALTER TABLE table ADD COLUMN column: an error when the table is missing
\* or has the column
AlterTableAddColumn(ts, table, column) ==
    IF table \notin DOMAIN ts \/ column \in ts[table]
    THEN [ok |-> FALSE, tables |-> ts]
    ELSE [ok |-> TRUE, tables |-> [ts EXCEPT ![table] = @ \cup {column}]]

\* _ensure_sqlite_column without its "if column not in existing" test
EnsureSqliteColumnNoTest(ts, table, column) ==
    AlterTableAddColumn(ts, table, column)

\* _ensure_sqlite_column: PRAGMA table_info, then ALTER TABLE when the
\* column is not listed
EnsureSqliteColumn(ts, table, column) ==
    LET existing == IF table \in DOMAIN ts THEN ts[table] ELSE {}
    IN  IF column \notin existing
        THEN AlterTableAddColumn(ts, table, column)
        ELSE [ok |-> TRUE, tables |-> ts]

VersionRow(v, at) == [version |-> v, applied_at |-> at]

\* INSERT OR REPLACE INTO schema_version, version being the key of the
\* table: the row in conflict is deleted and the new one inserted
InsertOrReplace(vrows, v, at) ==
    LET Other(r) == r.version # v
    IN  Append(SelectSeq(vrows, Other), VersionRow(v, at))

\* INSERT ... ON CONFLICT (version) DO UPDATE SET applied_at
InsertOnConflictUpdate(vrows, v, at) ==
    IF \E i \in DOMAIN vrows : vrows[i].version = v
    THEN [i \in DOMAIN vrows |->
             IF vrows[i].version = v
             THEN [vrows[i] EXCEPT !.applied_at = at]
             ELSE vrows[i]]
    ELSE Append(vrows, VersionRow(v, at))

\* how many rows of schema_version hold version v
Count(vrows, v) == Cardinality({i \in DOMAIN vrows : vrows[i].version = v})

\* the schema state: tables with their columns, and how often each version
\* is recorded
Snapshot(ts, vrows) ==
    [tables |-> ts,
     versions |-> {<<v, Count(vrows, v)>> :
                      v \in {vrows[i].version : i \in DOMAIN vrows}}]

NoSnapshot == [tables |-> NoTables, versions |-> {}]

\* the databases the utility is run on: an empty one, or one of an earlier
\* release, whose access_reviews has or lacks the column and whose
\* schema_version, if it exists, holds what earlier runs recorded
InitDatabases ==
    {<<NoTables, <<>>>>}
        \cup {<<[t \in {"access_reviews"} |-> cols], <<>>>> :
                 cols \in {LegacyColumns,
                           LegacyColumns \cup {"ai_risk_summary"}}}
        \cup {<<[t \in {"access_reviews", "schema_version"} |->
                    IF t = "access_reviews" THEN cols ELSE VersionColumns],
                vrows>> :
                 cols \in {LegacyColumns,
                           LegacyColumns \cup {"ai_risk_summary"}},
                 vrows \in {<<>>, <<VersionRow(OldVersion, 0)>>,
                            <<VersionRow(SCHEMA_VERSION, 0)>>,
                            <<VersionRow(OldVersion, 0),
                              VersionRow(SCHEMA_VERSION, 0)>>}}

\* the database the handler runs on: migrated once, out of band
MigratedTables ==
    [t \in {"access_reviews", "schema_version"} |->
        IF t = "access_reviews"
        THEN LegacyColumns \cup {"ai_risk_summary"}
        ELSE VersionColumns]

Migrated ==
    /\ dialect = "sqlite"
    /\ tables = MigratedTables
    /\ versions = <<VersionRow(SCHEMA_VERSION, 1)>>
    /\ step = "done"
    /\ runs = 1
    /\ first = Snapshot(MigratedTables, <<VersionRow(SCHEMA_VERSION, 1)>>)

Init ==
    /\ Migrated
    /\ db \in InitTables
    /\ client \in BOOLEAN
    /\ started = 0
    /\ pc = [p \in Procs |-> "idle"]
    /\ event = [p \in Procs |-> NoEvent]
    /\ rows = [p \in Procs |-> <<>>]
    /\ idx = [p \in Procs |-> 0]
    /\ context = [p \in Procs |-> NoContext]
    /\ summary = [p \in Procs |-> NULL]
    /\ results = [p \in Procs |-> <<>>]
    /\ ret = [p \in Procs |-> NoReturn]
    /\ response = [p \in Procs |-> NoResponse]
    /\ genCalls = [p \in Procs |-> 0]
    /\ entry = [p \in Procs |-> <<>>]
    /\ prev = [p \in Procs |-> NoPrev]

\* handler returning the report without the outcome of the last row
ReturnDropsLast(p, outcome) ==
    /\ context' = [context EXCEPT ![p] = NoContext]
    /\ summary' = [summary EXCEPT ![p] = NULL]
    /\ IF ~IsBatch(p)
       THEN /\ pc' = [pc EXCEPT ![p] = "done"]
            /\ ret' = [ret EXCEPT ![p] = outcome]
            /\ UNCHANGED <<idx, results>>
       ELSE /\ results' = [results EXCEPT ![p] = Append(@, outcome)]
            /\ IF idx[p] < Len(rows[p])
               THEN /\ idx' = [idx EXCEPT ![p] = @ + 1]
                    /\ pc' = [pc EXCEPT ![p] = "existing"]
                    /\ UNCHANGED ret
               ELSE /\ pc' = [pc EXCEPT ![p] = "done"]
                    /\ ret' = [ret EXCEPT ![p] = BatchReport(results[p])]
                    /\ UNCHANGED idx

\* _process_single_review returns outcome: handler returns it (single
\* review), or appends it to results and goes on with the next row or
\* returns the report (batch)
Return(p, outcome) ==
    /\ context' = [context EXCEPT ![p] = NoContext]
    /\ summary' = [summary EXCEPT ![p] = NULL]
    /\ IF ~IsBatch(p)
       THEN /\ pc' = [pc EXCEPT ![p] = "done"]
            /\ ret' = [ret EXCEPT ![p] = outcome]
            /\ UNCHANGED <<idx, results>>
       ELSE /\ results' = [results EXCEPT ![p] = Append(@, outcome)]
            /\ IF idx[p] < Len(rows[p])
               THEN /\ idx' = [idx EXCEPT ![p] = @ + 1]
                    /\ pc' = [pc EXCEPT ![p] = "existing"]
                    /\ UNCHANGED ret
               ELSE /\ pc' = [pc EXCEPT ![p] = "done"]
                    /\ ret' = [ret EXCEPT ![p] =
                                  BatchReport(Append(results[p], outcome))]
                    /\ UNCHANGED idx

Finished(p) == pc[p] \in {"done", "raised"}

\* what is kept of a finished invocation when the next one begins: its
\* review, its return value and the summary stored for its review
Previous(p) ==
    IF ~Finished(p)
    THEN NoPrev
    ELSE [review_id |-> event[p].review_id,
          eligible |-> ~IsBatch(p) /\ Eligible(entry[p], event[p].review_id),
          ret |-> ret[p],
          stored |-> ExistingAiSummary(db, event[p].review_id)]

\* handler(event, context) up to its first storage statement; in batch mode
\* the discovery query is that statement
Invoke(p, ev) ==
    /\ pc[p] = "idle" \/ Finished(p)
    /\ started < MaxInvocations
    /\ started' = started + 1
    /\ prev' = [prev EXCEPT ![p] = Previous(p)]
    /\ event' = [event EXCEPT ![p] = ev]
    /\ entry' = [entry EXCEPT ![p] = db]
    /\ results' = [results EXCEPT ![p] = <<>>]
    /\ response' = [response EXCEPT ![p] = NoResponse]
    /\ genCalls' = [genCalls EXCEPT ![p] = 0]
    /\ IF TruthyId(ev.review_id)
       THEN /\ pc' = [pc EXCEPT ![p] = "existing"]
            /\ rows' = [rows EXCEPT ![p] = <<>>]
            /\ idx' = [idx EXCEPT ![p] = 0]
            /\ ret' = [ret EXCEPT ![p] = NoReturn]
       ELSE LET found == ListHighRiskReviewsMissingAi(db)
            IN  /\ rows' = [rows EXCEPT ![p] = found]
                /\ IF found = <<>>
                   THEN /\ pc' = [pc EXCEPT ![p] = "done"]
                        /\ ret' = [ret EXCEPT ![p] = BatchReport(<<>>)]
                        /\ idx' = [idx EXCEPT ![p] = 0]
                   ELSE /\ pc' = [pc EXCEPT ![p] = "existing"]
                        /\ idx' = [idx EXCEPT ![p] = 1]
                        /\ ret' = [ret EXCEPT ![p] = NoReturn]
    /\ UNCHANGED mvars
    /\ UNCHANGED <<db, client, context, summary>>

\* the already-enriched check followed by the storage lookup whatever the
\* caller supplied
CheckExistingAlwaysLookup(p) ==
    /\ pc[p] = "existing"
    /\ LET existing == ExistingAiSummary(db, Current(p))
       IN  IF TruthyText(existing)
           THEN Return(p, Skipped(Current(p), "already_present"))
           ELSE /\ UNCHANGED <<summary, idx, results, ret>>
                /\ pc' = [pc EXCEPT ![p] = "context"]
                /\ UNCHANGED context
    /\ response' = [response EXCEPT ![p] = NoResponse]
    /\ genCalls' = [genCalls EXCEPT ![p] = 0]
    /\ UNCHANGED mvars
    /\ UNCHANGED <<db, client, started, event, rows, entry, prev>>

\* the already-enriched check followed by "if not user_context and not
\* policy_json": one inline context is enough to skip the storage lookup
CheckExistingEitherInline(p) ==
    /\ pc[p] = "existing"
    /\ LET existing == ExistingAiSummary(db, Current(p))
       IN  IF TruthyText(existing)
           THEN Return(p, Skipped(Current(p), "already_present"))
           ELSE /\ UNCHANGED <<summary, idx, results, ret>>
                /\ IF ~TruthyDict(ArgUserContext(p))
                      /\ ~TruthyDict(ArgPolicyJson(p))
                   THEN /\ pc' = [pc EXCEPT ![p] = "context"]
                        /\ UNCHANGED context
                   ELSE /\ pc' = [pc EXCEPT ![p] = "generate"]
                        /\ context' = [context EXCEPT ![p] =
                              [user_context |-> ArgUserContext(p),
                               policy_json |-> ArgPolicyJson(p)]]
    /\ response' = [response EXCEPT ![p] = NoResponse]
    /\ genCalls' = [genCalls EXCEPT ![p] = 0]
    /\ UNCHANGED mvars
    /\ UNCHANGED <<db, client, started, event, rows, entry, prev>>

\* _process_single_review, lines 117-123: the already-enriched check, then
\* the choice between the inline contexts and the storage lookup
CheckExisting(p) ==
    /\ pc[p] = "existing"
    /\ LET existing == ExistingAiSummary(db, Current(p))
       IN  IF TruthyText(existing)
           THEN Return(p, Skipped(Current(p), "already_present"))
           ELSE /\ UNCHANGED <<summary, idx, results, ret>>
                /\ IF ~TruthyDict(ArgUserContext(p))
                      \/ ~TruthyDict(ArgPolicyJson(p))
                   THEN /\ pc' = [pc EXCEPT ![p] = "context"]
                        /\ UNCHANGED context
                   ELSE /\ pc' = [pc EXCEPT ![p] = "generate"]
                        /\ context' = [context EXCEPT ![p] =
                              [user_context |-> ArgUserContext(p),
                               policy_json |-> ArgPolicyJson(p)]]
    /\ response' = [response EXCEPT ![p] = NoResponse]
    /\ genCalls' = [genCalls EXCEPT ![p] = 0]
    /\ UNCHANGED mvars
    /\ UNCHANGED <<db, client, started, event, rows, entry, prev>>

\* the storage lookup raising for a missing review instead of returning
\* FAILED(not_found)
BuildContextRaises(p) ==
    /\ pc[p] = "context"
    /\ LET got == BuildContextFromDb(db, Current(p))
       IN  IF ~got.found
           THEN /\ pc' = [pc EXCEPT ![p] = "raised"]
                /\ ret' = [ret EXCEPT ![p] = Raised]
                /\ UNCHANGED <<context, summary, idx, results>>
           ELSE IF got.risk_level # "HIGH"
           THEN Return(p, Skipped(Current(p), "non_high_risk"))
           ELSE /\ pc' = [pc EXCEPT ![p] = "generate"]
                /\ context' = [context EXCEPT ![p] =
                      [user_context |-> got.user_context,
                       policy_json |-> got.policy_json]]
                /\ UNCHANGED <<summary, idx, results, ret>>
    /\ UNCHANGED mvars
    /\ UNCHANGED <<db, client, started, event, rows, response, genCalls,
                   entry, prev>>

\* _process_single_review, lines 124-132: the storage lookup and the risk
\* gate
BuildContext(p) ==
    /\ pc[p] = "context"
    /\ LET got == BuildContextFromDb(db, Current(p))
       IN  IF ~got.found
           THEN Return(p, Failed(Current(p), "not_found"))
           ELSE IF got.risk_level # "HIGH"
           THEN Return(p, Skipped(Current(p), "non_high_risk"))
           ELSE /\ pc' = [pc EXCEPT ![p] = "generate"]
                /\ context' = [context EXCEPT ![p] =
                      [user_context |-> got.user_context,
                       policy_json |-> got.policy_json]]
                /\ UNCHANGED <<summary, idx, results, ret>>
    /\ UNCHANGED mvars
    /\ UNCHANGED <<db, client, started, event, rows, response, genCalls,
                   entry, prev>>

\* the generation call with "except ValueError" instead of "except
\* Exception": the other errors leave _process_single_review
GenerateNarrowExcept(p, resp) ==
    /\ pc[p] = "generate"
    /\ LET got == GenerateAiSummary(client, resp)
       IN  IF got.ok \/ got.error = "ValueError"
           THEN /\ summary' = [summary EXCEPT ![p] =
                       IF got.ok THEN got.text ELSE FALLBACK_SUMMARY]
                /\ pc' = [pc EXCEPT ![p] = "persist"]
                /\ UNCHANGED ret
           ELSE /\ summary' = summary
                /\ pc' = [pc EXCEPT ![p] = "raised"]
                /\ ret' = [ret EXCEPT ![p] = Raised]
    /\ response' = [response EXCEPT ![p] = IF client THEN resp ELSE NoResponse]
    /\ genCalls' = [genCalls EXCEPT ![p] = @ + 1]
    /\ UNCHANGED mvars
    /\ UNCHANGED <<db, client, started, event, rows, idx, context, results,
                   entry, prev>>

\* the generation call tried a second time when the first one fails
GenerateWithRetry(p, resp) ==
    /\ pc[p] = "generate"
    /\ LET got == GenerateAiSummary(client, resp)
       IN  IF ~got.ok /\ genCalls[p] = 0
           THEN /\ summary' = summary
                /\ pc' = pc
           ELSE /\ summary' = [summary EXCEPT ![p] =
                       IF got.ok THEN got.text ELSE FALLBACK_SUMMARY]
                /\ pc' = [pc EXCEPT ![p] = "persist"]
    /\ response' = [response EXCEPT ![p] = IF client THEN resp ELSE NoResponse]
    /\ genCalls' = [genCalls EXCEPT ![p] = @ + 1]
    /\ UNCHANGED mvars
    /\ UNCHANGED <<db, client, started, event, rows, idx, context, results,
                   ret, entry, prev>>

\* _process_single_review, lines 134-141: the generation call and the
\* fallback
Generate(p, resp) ==
    /\ pc[p] = "generate"
    /\ LET got == GenerateAiSummary(client, resp)
       IN  summary' = [summary EXCEPT ![p] =
                          IF got.ok THEN got.text ELSE FALLBACK_SUMMARY]
    /\ response' = [response EXCEPT ![p] = IF client THEN resp ELSE NoResponse]
    /\ genCalls' = [genCalls EXCEPT ![p] = @ + 1]
    /\ pc' = [pc EXCEPT ![p] = "persist"]
    /\ UNCHANGED mvars
    /\ UNCHANGED <<db, client, started, event, rows, idx, context, results,
                   ret, entry, prev>>

\* _process_single_review, lines 143-145: the storage write
Persist(p) ==
    /\ pc[p] = "persist"
    /\ db' = PersistSummary(db, Current(p), summary[p])
    /\ Return(p, Success(Current(p)))
    /\ UNCHANGED mvars
    /\ UNCHANGED <<client, started, event, rows, response, genCalls,
                   entry, prev>>

\* the storage write raises: nothing in _process_single_review or handler
\* catches it
PersistRaises(p) ==
    /\ pc[p] = "persist"
    /\ pc' = [pc EXCEPT ![p] = "raised"]
    /\ ret' = [ret EXCEPT ![p] = Raised]
    /\ context' = [context EXCEPT ![p] = NoContext]
    /\ summary' = [summary EXCEPT ![p] = NULL]
    /\ UNCHANGED mvars
    /\ UNCHANGED <<db, client, started, event, rows, idx, results, response,
                   genCalls, entry, prev>>

\* invocations run one after another: they share the first process
Sequential == {1}

StepOn(p, evs) ==
    \/ \E ev \in evs : Invoke(p, ev)
    \/ CheckExisting(p)
    \/ BuildContext(p)
    \/ \E resp \in Responses : Generate(p, resp)
    \/ Persist(p)

\* sequential invocations, storage statements succeed
Next == \E p \in Sequential : StepOn(p, Events)

Spec == Init /\ [][Next]_vars

\* the events with both inline contexts or none
RaceEvents ==
    {ev \in Events : TruthyDict(ev.user_context) = TruthyDict(ev.policy_json)
                     /\ EmptyDict \notin {ev.user_context, ev.policy_json}}

\* invocations interleaved at their storage and generation steps
RaceNext == \E p \in Procs : StepOn(p, RaceEvents)

RaceSpec == Init /\ [][RaceNext]_vars

\* sequential invocations, the storage write may raise
FaultNext ==
    \E p \in Sequential : StepOn(p, Events) \/ PersistRaises(p)

FaultSpec == Init /\ [][FaultNext]_vars

\* ------------------------------------------------- migrate.py, step by step
\* main: one more run of the utility
StartMigration ==
    /\ step \in {"idle", "done", "failed"}
    /\ runs < MaxRuns
    /\ step' = "base"
    /\ runs' = runs + 1
    /\ UNCHANGED <<dialect, tables, versions, first>>
    /\ UNCHANGED hvars

\* apply_sqlite line 56, apply_postgres line 92: schema_base.sql
ApplyBase ==
    /\ step = "base"
    /\ \E withSummary \in BOOLEAN : tables' = SchemaBase(tables, withSummary)
    /\ step' = "dialect"
    /\ UNCHANGED <<dialect, versions, runs, first>>
    /\ UNCHANGED hvars

\* apply_sqlite line 57, apply_postgres lines 93-94: the dialect's file
ApplyDialect ==
    /\ step = "dialect"
    /\ tables' = SchemaDialect(dialect, tables)
    /\ step' = IF dialect = "sqlite" THEN "column" ELSE "version"
    /\ UNCHANGED <<dialect, versions, runs, first>>
    /\ UNCHANGED hvars

\* apply_sqlite lines 58-63: the column is ensured; an error of ALTER TABLE
\* ends the run
EnsureColumn ==
    /\ step = "column"
    /\ LET got == EnsureSqliteColumn(tables, "access_reviews",
                                     "ai_risk_summary")
       IN  IF got.ok
           THEN /\ tables' = got.tables
                /\ step' = "version"
           ELSE /\ step' = "failed"
                /\ UNCHANGED tables
    /\ UNCHANGED <<dialect, versions, runs, first>>
    /\ UNCHANGED hvars

\* apply_sqlite lines 64-68, apply_postgres lines 95-102: the version is
\* recorded and the run commits
RecordVersion ==
    /\ step = "version"
    /\ versions' = IF dialect = "sqlite"
                   THEN InsertOrReplace(versions, SCHEMA_VERSION, runs)
                   ELSE InsertOnConflictUpdate(versions, SCHEMA_VERSION, runs)
    /\ step' = "done"
    /\ first' = IF runs = 1 THEN Snapshot(tables, versions') ELSE first
    /\ UNCHANGED <<dialect, tables, runs>>
    /\ UNCHANGED hvars

\* the utility run on a database of InitDatabases; the handler is not
\* running
MigrateInit ==
    /\ dialect \in Dialects
    /\ \E d \in InitDatabases : tables = d[1] /\ versions = d[2]
    /\ step = "idle"
    /\ runs = 0
    /\ first = NoSnapshot
    /\ db = [r \in {} |-> NULL]
    /\ client = FALSE
    /\ started = 0
    /\ pc = [p \in Procs |-> "idle"]
    /\ event = [p \in Procs |-> NoEvent]
    /\ rows = [p \in Procs |-> <<>>]
    /\ idx = [p \in Procs |-> 0]
    /\ context = [p \in Procs |-> NoContext]
    /\ summary = [p \in Procs |-> NULL]
    /\ results = [p \in Procs |-> <<>>]
    /\ ret = [p \in Procs |-> NoReturn]
    /\ response = [p \in Procs |-> NoResponse]
    /\ genCalls = [p \in Procs |-> 0]
    /\ entry = [p \in Procs |-> <<>>]
    /\ prev = [p \in Procs |-> NoPrev]

MigrateNext ==
    \/ StartMigration
    \/ ApplyBase
    \/ ApplyDialect
    \/ EnsureColumn
    \/ RecordVersion

MigrateSpec == MigrateInit /\ [][MigrateNext]_vars

\* ---------------------------------------------------------------- claims
Stored(r) == ExistingAiSummary(db, r)

\* both inline contexts supplied: the storage lookup is skipped
BothInline(ev) == TruthyDict(ev.user_context) /\ TruthyDict(ev.policy_json)

\* C1: under sequential use, once a review's ai_risk_summary is non-null no
\* later step of any invocation changes it.
WriteOnceSequential ==
    [][\A r \in DOMAIN db :
          db[r].ai_risk_summary # NULL
              => db'[r].ai_risk_summary = db[r].ai_risk_summary]_vars

\* C2: under interleaved invocations no write replaces the summary that
\* another invocation stored for a HIGH review.  Stated for the non-empty
\* summaries, which the already-enriched check recognises: sequential runs
\* keep it, so a violation is an overwrite by an invocation that made its
\* check before the other one's write.
WriteOnceUnderRaces ==
    [][\A r \in DOMAIN db :
          (db[r].risk_level = "HIGH" /\ TruthyText(db[r].ai_risk_summary))
              => db'[r].ai_risk_summary = db[r].ai_risk_summary]_vars

\* C3: two consecutive single-review invocations on a review that was
\* stored, HIGH and without summary return SUCCESS and then
\* SKIPPED(already_present), and the second leaves the stored summary as the
\* first left it.
IdempotentTwice ==
    \A p \in Procs :
        (/\ pc[p] = "done"
         /\ ~IsBatch(p)
         /\ prev[p].eligible
         /\ prev[p].review_id = event[p].review_id)
            => /\ prev[p].ret = Success(event[p].review_id)
               /\ ret[p] = Skipped(event[p].review_id, "already_present")
               /\ Stored(event[p].review_id) = prev[p].stored

\* the review a single-review invocation was given
Rid(p) == event[p].review_id

SingleDone(p) == pc[p] = "done" /\ ~IsBatch(p)

\* C4 as claimed: every invocation on a stored review that is not HIGH and
\* has no summary returns SKIPPED(non_high_risk) and leaves the summary null.
RiskGatingEveryInvocation ==
    \A p \in Procs :
        (/\ Finished(p)
         /\ ~IsBatch(p)
         /\ Rid(p) \in DOMAIN entry[p]
         /\ entry[p][Rid(p)].risk_level # "HIGH"
         /\ entry[p][Rid(p)].ai_risk_summary = NULL)
            => /\ ret[p] = Skipped(Rid(p), "non_high_risk")
               /\ Stored(Rid(p)) = NULL

\* C4 as amended: every invocation that does not supply both inline contexts,
\* on a stored review that is not HIGH and has no summary, returns
\* SKIPPED(non_high_risk) and leaves the summary null.
RiskGating ==
    \A p \in Procs :
        (/\ Finished(p)
         /\ ~IsBatch(p)
         /\ ~BothInline(event[p])
         /\ Rid(p) \in DOMAIN entry[p]
         /\ entry[p][Rid(p)].risk_level # "HIGH"
         /\ entry[p][Rid(p)].ai_risk_summary = NULL)
            => /\ ret[p] = Skipped(Rid(p), "non_high_risk")
               /\ Stored(Rid(p)) = NULL

\* a LOW review without summary was skipped by an invocation that supplied
\* one of the two inline contexts
RiskGatingWitness ==
    \E p \in Procs :
        /\ SingleDone(p)
        /\ TruthyDict(event[p].user_context)
        /\ ~TruthyDict(event[p].policy_json)
        /\ Rid(p) \in DOMAIN entry[p]
        /\ entry[p][Rid(p)].risk_level = "LOW"
        /\ entry[p][Rid(p)].ai_risk_summary = NULL
        /\ ret[p] = Skipped(Rid(p), "non_high_risk")

\* the generation call of the review just processed failed because the
\* client is unconfigured or the backend raised
GenerationFailed(p) ==
    genCalls[p] = 1 /\ (~client \/ response[p].kind = "raise")

\* the review a batch processed last, once its outcome is in results
LastProcessed(p) == rows[p][Len(results[p])]

BatchBetweenReviews(p) ==
    IsBatch(p) /\ pc[p] \in {"existing", "done"} /\ results[p] # <<>>

\* C5: when the client is unconfigured or the generation call raises, a
\* review that was stored, HIGH and without summary ends with outcome SUCCESS
\* and the fallback sentence stored, in single-review and in batch mode.
FallbackGuarantee ==
    \A p \in Procs :
        /\ (/\ Finished(p)
            /\ ~IsBatch(p)
            /\ Eligible(entry[p], Rid(p))
            /\ ~client \/ response[p].kind = "raise")
               => /\ pc[p] = "done"
                  /\ ret[p] = Success(Rid(p))
                  /\ Stored(Rid(p)) = FALLBACK_SUMMARY
        /\ (BatchBetweenReviews(p) /\ GenerationFailed(p))
               => /\ results[p][Len(results[p])] = Success(LastProcessed(p))
                  /\ Stored(LastProcessed(p)) = FALLBACK_SUMMARY

\* a batch without client stored the fallback sentence for the two reviews it
\* discovered
FallbackGuaranteeWitness ==
    \E p \in Procs :
        /\ pc[p] = "done"
        /\ IsBatch(p)
        /\ ~client
        /\ Len(rows[p]) = 2
        /\ \A i \in 1 .. 2 :
              /\ Eligible(entry[p], rows[p][i])
              /\ ret[p].processed[i] = Success(rows[p][i])
              /\ Stored(rows[p][i]) = FALLBACK_SUMMARY

\* C6: a batch invocation always returns its report, with one outcome for
\* each discovered review, also when the storage write of a review raises.
BatchIsolatesFailures ==
    \A p \in Procs :
        (IsBatch(p) /\ Finished(p))
            => /\ pc[p] = "done"
               /\ Len(ret[p].processed) = Len(rows[p])

\* C7: after a batch invocation has returned, no review that was HIGH and
\* without summary when it began is still without summary.
BatchCompleteness ==
    \A p \in Procs :
        (pc[p] = "done" /\ IsBatch(p))
            => \A r \in DOMAIN entry[p] :
                  Eligible(entry[p], r) => ~Eligible(db, r)

\* a batch returned after two reviews were HIGH and without summary when it
\* began
BatchCompletenessWitness ==
    \E p \in Procs :
        /\ pc[p] = "done"
        /\ IsBatch(p)
        /\ Cardinality({r \in DOMAIN entry[p] : Eligible(entry[p], r)}) = 2
        /\ \A r \in DOMAIN entry[p] :
              Eligible(entry[p], r) => TruthyText(Stored(r))

\* C8: a single-review invocation without both inline contexts, on a
\* review_id that has no row, returns FAILED(not_found), makes no generation
\* call and leaves the table as it was.
NotFound ==
    \A p \in Procs :
        (/\ Finished(p)
         /\ ~IsBatch(p)
         /\ ~BothInline(event[p])
         /\ Rid(p) \notin DOMAIN entry[p])
            => /\ ret[p] = Failed(Rid(p), "not_found")
               /\ genCalls[p] = 0
               /\ db = entry[p]

\* an invocation that supplied user_context alone for a missing review
\* failed
NotFoundWitness ==
    \E p \in Procs :
        /\ SingleDone(p)
        /\ event[p].user_context = InlineUser
        /\ event[p].policy_json = NoneDict
        /\ Rid(p) \notin DOMAIN entry[p]
        /\ entry[p] # <<>>
        /\ ret[p] = Failed(Rid(p), "not_found")

\* the review ids of a list of outcomes
ReviewIdsOf(outcomes) == [i \in 1 .. Len(outcomes) |-> outcomes[i].review_id]

\* C9: a batch invocation that completes returns status SUCCESS and one
\* outcome for each review the discovery query returned, in its order, each
\* of them a review that was HIGH and without summary.
BatchReportShape ==
    \A p \in Procs :
        (pc[p] = "done" /\ IsBatch(p))
            => /\ ret[p].status = "SUCCESS"
               /\ ReviewIdsOf(ret[p].processed)
                      = ListHighRiskReviewsMissingAi(entry[p])
               /\ \A i \in 1 .. Len(ret[p].processed) :
                     Eligible(entry[p], ret[p].processed[i].review_id)

\* a batch over R1 and R3, HIGH and without summary, and R2, LOW, reported
\* R1 and then R3
BatchReportShapeWitness ==
    \E p \in Procs :
        /\ pc[p] = "done"
        /\ IsBatch(p)
        /\ DOMAIN entry[p] = {"R1", "R2", "R3"}
        /\ entry[p]["R2"].risk_level = "LOW"
        /\ ret[p] = BatchReport(<<Success("R1"), Success("R3")>>)

\* the backend answered the generation call of the review just processed
\* with a non-empty text
GenerationReturnedText(p) ==
    genCalls[p] = 1 /\ response[p].kind = "text" /\ response[p].text # <<>>

\* C10: when the backend returns a non-empty text for a review that was
\* stored, HIGH and without summary, the outcome is SUCCESS and the summary
\* stored is that text stripped, not the fallback sentence.
StoredAsReturned ==
    \A p \in Procs :
        /\ (/\ Finished(p)
            /\ ~IsBatch(p)
            /\ Eligible(entry[p], Rid(p))
            /\ GenerationReturnedText(p))
               => /\ ret[p] = Success(Rid(p))
                  /\ Stored(Rid(p)) = Strip(response[p].text)
                  /\ Stored(Rid(p)) # FALLBACK_SUMMARY
        /\ (BatchBetweenReviews(p) /\ GenerationReturnedText(p))
               => /\ results[p][Len(results[p])] = Success(LastProcessed(p))
                  /\ Stored(LastProcessed(p)) = Strip(response[p].text)
                  /\ Stored(LastProcessed(p)) # FALLBACK_SUMMARY

\* the backend returned " a" and "a" was stored
StoredAsReturnedWitness ==
    \E p \in Procs :
        /\ SingleDone(p)
        /\ Eligible(entry[p], Rid(p))
        /\ response[p] = [kind |-> "text", text |-> <<" ", "a">>]
        /\ ret[p] = Success(Rid(p))
        /\ Stored(Rid(p)) = <<"a">>

\* the positions of a running _process_single_review call, in the order the
\* code reaches them
CallRank(at) ==
    CASE at = "existing" -> 1
      [] at = "context" -> 2
      [] at = "generate" -> 3
      [] at = "persist" -> 4
      [] OTHER -> 0

InCall(p) == CallRank(pc[p]) > 0

\* the step ends the running call of p with an outcome
CallReturns(p) ==
    InCall(p) /\ (pc'[p] = "done" \/ idx'[p] = idx[p] + 1)

\* the step ends the running call of p with an exception
CallRaises(p) == InCall(p) /\ pc'[p] = "raised"

TerminalStatuses == {"SUCCESS", "SKIPPED", "FAILED"}

IsOutcomeFor(o, r) == o.status \in TerminalStatuses /\ o.review_id = r

\* the outcome the step hands to the caller of the call of p
OutcomeProduced(p) ==
    IF IsBatch(p)
    THEN /\ Len(results'[p]) = Len(results[p]) + 1
         /\ SubSeq(results'[p], 1, Len(results[p])) = results[p]
         /\ IsOutcomeFor(results'[p][Len(results'[p])], Current(p))
    ELSE IsOutcomeFor(ret'[p], Current(p))

\* a running call can take its next step
CallCanStep(p) ==
    ENABLED (\/ CheckExisting(p)
             \/ BuildContext(p)
             \/ \E resp \in Responses : Generate(p, resp)
             \/ Persist(p))

\* a step inside a call moves it forward and produces no outcome
CallAdvances(p) ==
    (InCall(p) /\ ~CallReturns(p) /\ ~CallRaises(p))
        => /\ CallRank(pc'[p]) > CallRank(pc[p])
           /\ results'[p] = results[p]
           /\ ret'[p] = ret[p]

Produced(p) ==
    LET got == GenerateAiSummary(client, response[p])
    IN  IF got.ok THEN got.text ELSE FALLBACK_SUMMARY

\* C12: a single-review invocation with both inline contexts, on a stored
\* review that is not HIGH and has no summary, never makes the storage
\* lookup that reads the risk level, gives the inline contexts to the
\* generator, calls it once, and returns SUCCESS with the generated text or
\* the fallback sentence stored.
InlineBypassesGate ==
    \A p \in Procs :
        (/\ ~IsBatch(p)
         /\ BothInline(event[p])
         /\ Rid(p) \in DOMAIN entry[p]
         /\ entry[p][Rid(p)].risk_level # "HIGH"
         /\ entry[p][Rid(p)].ai_risk_summary = NULL)
            => /\ pc[p] # "context"
               /\ pc[p] \in {"generate", "persist"}
                     => context[p] = [user_context |-> event[p].user_context,
                                      policy_json |-> event[p].policy_json]
               /\ Finished(p)
                     => /\ ret[p] = Success(Rid(p))
                        /\ genCalls[p] = 1
                        /\ Stored(Rid(p)) = Produced(p)
                        /\ Stored(Rid(p)) # NULL

\* an invocation with both inline contexts stored the generated text "a" for
\* a LOW review
InlineBypassesGateWitness ==
    \E p \in Procs :
        /\ SingleDone(p)
        /\ BothInline(event[p])
        /\ Rid(p) \in DOMAIN entry[p]
        /\ entry[p][Rid(p)].risk_level = "LOW"
        /\ entry[p][Rid(p)].ai_risk_summary = NULL
        /\ ret[p] = Success(Rid(p))
        /\ db[Rid(p)].risk_level = "LOW"
        /\ Stored(Rid(p)) = <<"a">>

\* the outcome the step hands over when it ends the call of p
OutcomeAfter(p) ==
    IF IsBatch(p) THEN results'[p][Len(results'[p])] ELSE ret'[p]

\* the state in which _process_single_review may call the generator: no
\* summary found, both contexts resolved, risk level HIGH (by construction
\* with inline contexts, from the row otherwise)
ReadyToGenerate(p) ==
    /\ pc[p] = "generate"
    /\ ~TruthyText(Stored(Current(p)))
    /\ TruthyDict(context[p].user_context)
    /\ TruthyDict(context[p].policy_json)
    /\ \/ ~IsBatch(p) /\ BothInline(event[p])
       \/ Current(p) \in DOMAIN db /\ db[Current(p)].risk_level = "HIGH"

\* C13: a call of _process_single_review calls the generator at most once,
\* and only after it found no summary, resolved the contexts and found the
\* risk level HIGH; a call that ends SKIPPED or FAILED has not called it.
NoSpendNoRetry ==
    [][\A p \in Procs :
          /\ genCalls'[p] <= 1
          /\ genCalls'[p] = genCalls[p] + 1 => ReadyToGenerate(p)
          /\ (CallReturns(p) /\ OutcomeAfter(p).status \in {"SKIPPED", "FAILED"})
                => genCalls[p] = 0 /\ genCalls'[p] = 0]_vars

\* a call was skipped without generation call for a review whose summary
\* the invocation before it had generated
NoSpendNoRetryWitness ==
    \E p \in Procs :
        /\ SingleDone(p)
        /\ ret[p] = Skipped(Rid(p), "already_present")
        /\ genCalls[p] = 0
        /\ prev[p].review_id = Rid(p)
        /\ prev[p].ret = Success(Rid(p))

\* the fields of a row other than ai_risk_summary
OtherFields(row) == [row EXCEPT !.ai_risk_summary = NULL]

\* C14: no step adds or removes a row or changes a field other than
\* ai_risk_summary; the table changes only in the step that ends a call with
\* SUCCESS, and then only in the row of the review that call was given; a
\* call that ends SKIPPED or FAILED leaves the table as it was.
FrameOfCall ==
    [][/\ DOMAIN db' = DOMAIN db
       /\ \A r \in DOMAIN db : OtherFields(db'[r]) = OtherFields(db[r])
       /\ db' # db
             => \E p \in Procs :
                   /\ CallReturns(p)
                   /\ OutcomeAfter(p) = Success(Current(p))
                   /\ \A r \in DOMAIN db \ {Current(p)} : db'[r] = db[r]
       /\ \A p \in Procs :
             (CallReturns(p) /\ OutcomeAfter(p).status \in {"SKIPPED", "FAILED"})
                 => /\ db' = db
                    /\ ~IsBatch(p) => db' = entry[p]]_vars

\* a call returned SUCCESS and changed the summary of its review while the
\* two other rows stayed as they were
FrameOfCallWitness ==
    \E p \in Procs :
        /\ SingleDone(p)
        /\ ret[p] = Success(Rid(p))
        /\ DOMAIN db = ReviewIds
        /\ db[Rid(p)] # entry[p][Rid(p)]
        /\ \A r \in ReviewIds \ {Rid(p)} :
              db[r] = entry[p][r] /\ db[r].ai_risk_summary = NULL

\* the backend answered the generation call of the review just processed
\* with a response whose text is missing or empty
GenerationReturnedNothing(p) ==
    /\ genCalls[p] = 1
    /\ \/ response[p].kind = "notext"
       \/ response[p].kind = "text" /\ response[p].text = <<>>

\* C15: when the backend's response has no text or an empty text, the
\* generator raises, the call of _process_single_review still returns, and
\* the fallback sentence is stored with outcome SUCCESS, in single-review
\* and in batch mode.
EmptyPayloadIsFailure ==
    \A p \in Procs :
        /\ (pc[p] = "persist" /\ GenerationReturnedNothing(p))
               => /\ ~GenerateAiSummary(client, response[p]).ok
                  /\ summary[p] = FALLBACK_SUMMARY
        /\ (/\ Finished(p)
            /\ ~IsBatch(p)
            /\ Rid(p) \in DOMAIN entry[p]
            /\ GenerationReturnedNothing(p))
               => /\ ret[p] = Success(Rid(p))
                  /\ Stored(Rid(p)) = FALLBACK_SUMMARY
        /\ (BatchBetweenReviews(p) /\ GenerationReturnedNothing(p))
               => /\ results[p][Len(results[p])] = Success(LastProcessed(p))
                  /\ Stored(LastProcessed(p)) = FALLBACK_SUMMARY

\* the backend returned an empty text and the fallback sentence was stored
EmptyPayloadIsFailureWitness ==
    \E p \in Procs :
        /\ SingleDone(p)
        /\ Eligible(entry[p], Rid(p))
        /\ genCalls[p] = 1
        /\ response[p] = [kind |-> "text", text |-> <<>>]
        /\ ret[p] = Success(Rid(p))
        /\ Stored(Rid(p)) = FALLBACK_SUMMARY

\* the event has a dict under the key, empty or not
Carried(d) == d.tag = "dict"

\* the contexts the event of invocation p carries
InlineOf(p) ==
    [user_context |-> event[p].user_context,
     policy_json |-> event[p].policy_json]

\* the contexts _build_context_from_db derives from the stored row
StoredContextOf(conn, r) ==
    LET got == BuildContextFromDb(conn, r)
    IN  [user_context |-> got.user_context, policy_json |-> got.policy_json]

\* the single-review invocation p has resolved its context and is about to
\* generate
SingleResolved(p) == pc[p] = "generate" /\ ~IsBatch(p)

\* the invocation p ended at the storage lookup or at the risk gate
EndedAtLookup(p) ==
    /\ SingleDone(p)
    /\ ret[p] \in {Failed(Rid(p), "not_found"),
                   Skipped(Rid(p), "non_high_risk")}

\* C16 as claimed: a single-review invocation skips the storage lookup,
\* with risk level HIGH, exactly when its event carries both user_context
\* and policy_json; otherwise contexts and risk level come from the stored
\* row.
LookupSkippedIffBothCarried ==
    \A p \in Procs :
        LET both == Carried(event[p].user_context)
                        /\ Carried(event[p].policy_json)
        IN  /\ SingleResolved(p)
                  => IF both
                     THEN context[p] = InlineOf(p)
                     ELSE /\ Rid(p) \in DOMAIN db
                          /\ db[Rid(p)].risk_level = "HIGH"
                          /\ context[p] = StoredContextOf(db, Rid(p))
            /\ EndedAtLookup(p) => ~both

\* C16 as amended: a single-review invocation skips the storage lookup,
\* with risk level HIGH, exactly when its event carries a non-empty
\* user_context and a non-empty policy_json; when either is missing or
\* empty, contexts and risk level come from the stored row and no inline
\* value is used.
LookupSkippedIffBothNonEmpty ==
    \A p \in Procs :
        /\ SingleResolved(p)
              => IF BothInline(event[p])
                 THEN context[p] = InlineOf(p)
                 ELSE /\ Rid(p) \in DOMAIN db
                      /\ db[Rid(p)].risk_level = "HIGH"
                      /\ context[p] = StoredContextOf(db, Rid(p))
        /\ EndedAtLookup(p) => ~BothInline(event[p])

\* an invocation that supplied user_context alone is about to generate from
\* the stored contexts
LookupSkippedWitness ==
    \E p \in Procs :
        /\ SingleResolved(p)
        /\ event[p].user_context = InlineUser
        /\ event[p].policy_json = NoneDict
        /\ context[p] = StoredContextOf(db, Rid(p))
        /\ context[p].user_context # InlineUser

SuccessMeansStored ==
    \A p \in Procs :
        /\ (SingleDone(p) /\ ret[p] = Success(Rid(p)))
               => /\ Rid(p) \in DOMAIN db
                  /\ db[Rid(p)].ai_risk_summary # NULL
        /\ (/\ BatchBetweenReviews(p)
            /\ results[p][Len(results[p])] = Success(LastProcessed(p)))
               => /\ LastProcessed(p) \in DOMAIN db
                  /\ db[LastProcessed(p)].ai_risk_summary # NULL

\* C19: every write to ai_risk_summary stores a non-empty string, the
\* generator's text or the fallback sentence, so the already-enriched check
\* of a later call finds it.
PersistedSummaryNonEmpty ==
    [][\A r \in DOMAIN db :
          db'[r].ai_risk_summary # db[r].ai_risk_summary
              => /\ db'[r].ai_risk_summary # NULL
                 /\ db'[r].ai_risk_summary # <<>>
                 /\ TruthyText(ExistingAiSummary(db', r))]_vars

\* the batch invocation p is at the already-enriched check of a review it
\* discovered as missing a summary, and the review has one by now
StaleDiscovery(p) ==
    /\ IsBatch(p)
    /\ pc[p] = "existing"
    /\ Current(p) \in DOMAIN db
    /\ db[Current(p)].ai_risk_summary # NULL

\* invocation p takes a step
StepOf(p) == pc'[p] # pc[p] \/ idx'[p] # idx[p]

\* C20: when a review of the batch's discovery list has received a summary
\* from another invocation before the batch's already-enriched check, that
\* check reports SKIPPED(already_present), the generator is not called for
\* the review and its stored summary stays as it is.
StaleDiscoveryHarmless ==
    [][\A p \in Procs :
          (StaleDiscovery(p) /\ StepOf(p))
              => /\ results'[p] =
                        Append(results[p],
                               Skipped(Current(p), "already_present"))
                 /\ genCalls'[p] = 0
                 /\ pc'[p] # "generate"
                 /\ db' = db]_vars

====
